---- MODULE Spec2Model ----
(***************************************************************************)
(* A model of ambassador_diag/diagd.py: the diagnostic daemon of           *)
(* Ambassador.  It covers the request envelope (standard_handler), the     *)
(* Notices store, the generation selector (get_aconf), the rebuild         *)
(* pipeline of show_overview / show_intermediate, the two health probes    *)
(* and the periodic statistics updater.                                    *)
(*                                                                         *)
(* Strings that the code inspects (directory names, the notices file) are  *)
(* sequences of tokens; the token "sync-" stands for those five            *)
(* characters, every other token is one character or one JSON literal.     *)
(***************************************************************************)
EXTENDS Integers, Sequences, FiniteSets, TLC

\* ------------------------------------------------------------------------
\* Bounds of the model
\* ------------------------------------------------------------------------
MaxNameLen == 3
MaxEntries == 2
MaxFileLen == 5
MaxStore == 3
MaxRequests == 2
MaxUpdates == 2
MaxGenerations == 2

\* ------------------------------------------------------------------------
\* Python values used by get_aconf
\* ------------------------------------------------------------------------
\* The literal "sync-" of get_aconf, as one token.
SyncPrefix == "sync-"

DigitChars == <<"0", "1", "2", "3", "4", "5", "6", "7", "8", "9">>

\* The characters directory names are drawn from.
NameTokens == {SyncPrefix, "0", "1", "9", "-"}

\* Every name of at most MaxNameLen tokens.
AllNames == UNION {[1..k -> NameTokens] : k \in 1..MaxNameLen}

IsDigit(c) == \E i \in 1..10 : DigitChars[i] = c

DigitValue(c) == (CHOOSE i \in 1..10 : DigitChars[i] = c) - 1

\* str.startswith("sync-")
StartsWithSync(name) == Len(name) >= 1 /\ name[1] = SyncPrefix

\* str.replace("sync-", ""): every occurrence is removed, not only the first.
RECURSIVE ReplaceSync(_)
ReplaceSync(s) ==
    IF s = <<>> THEN <<>>
    ELSE IF Head(s) = SyncPrefix THEN ReplaceSync(Tail(s))
    ELSE <<Head(s)>> \o ReplaceSync(Tail(s))

\* The value of a non-empty run of decimal digits.
RECURSIVE DigitsValue(_, _)
DigitsValue(s, acc) ==
    IF s = <<>> THEN acc
    ELSE DigitsValue(Tail(s), acc * 10 + DigitValue(Head(s)))

AllDigits(s) == Len(s) >= 1 /\ \A i \in 1..Len(s) : IsDigit(s[i])

ValueError == [ok |-> FALSE, val |-> 0]

\* int(str): an optional sign, then one or more decimal digits (leading zeros
\* are accepted); anything else raises ValueError.
PyInt(s) ==
    IF AllDigits(s) THEN [ok |-> TRUE, val |-> DigitsValue(s, 0)]
    ELSE IF Len(s) >= 2 /\ s[1] = "-" /\ AllDigits(Tail(s))
         THEN [ok |-> TRUE, val |-> 0 - DigitsValue(Tail(s), 0)]
    ELSE IF Len(s) >= 2 /\ s[1] = "+" /\ AllDigits(Tail(s))
         THEN [ok |-> TRUE, val |-> DigitsValue(Tail(s), 0)]
    ELSE ValueError

\* "%d" % n
RECURSIVE NatToStr(_)
NatToStr(n) ==
    IF n < 10 THEN <<DigitChars[n + 1]>>
    ELSE NatToStr(n \div 10) \o <<DigitChars[(n % 10) + 1]>>

IntToStr(n) == IF n < 0 THEN <<"-">> \o NatToStr(0 - n) ELSE NatToStr(n)

\* "sync-%d" % latest_generation (the path below config_dir_prefix)
SyncDirName(n) == <<SyncPrefix>> \o IntToStr(n)

\* os.listdir: the entries in some order.
RECURSIVE ListDir(_)
ListDir(S) ==
    IF S = {} THEN <<>>
    ELSE LET x == CHOOSE y \in S : TRUE IN <<x>> \o ListDir(S \ {x})

\* The loop of get_aconf that fills sync_dirs.
RECURSIVE SyncDirs(_)
SyncDirs(listing) ==
    IF listing = <<>> THEN <<>>
    ELSE LET subdir == Head(listing)
             rest == SyncDirs(Tail(listing))
             parsed == PyInt(ReplaceSync(subdir))
         IN IF StartsWithSync(subdir) /\ parsed.ok
            THEN <<parsed.val>> \o rest
            ELSE rest

\* sorted(sync_dirs, reverse=True)
RECURSIVE InsertDesc(_, _)
InsertDesc(x, s) ==
    IF s = <<>> THEN <<x>>
    ELSE IF x >= Head(s) THEN <<x>> \o s
    ELSE <<Head(s)>> \o InsertDesc(x, Tail(s))

RECURSIVE SortedReverse(_)
SortedReverse(s) ==
    IF s = <<>> THEN <<>> ELSE InsertDesc(Head(s), SortedReverse(Tail(s)))

\* A variant of the selection that falls back to generation 0 instead of
\* raising when no generation is found.
GetAconfSelectDefault(entries) ==
    LET sync_dirs == SyncDirs(ListDir(entries))
        sorted == SortedReverse(sync_dirs)
    IN IF sorted = <<>>
       THEN [raised |-> FALSE, latest_generation |-> 0,
             latest |-> SyncDirName(0)]
       ELSE [raised |-> FALSE, latest_generation |-> sorted[1],
             latest |-> SyncDirName(sorted[1])]

\* get_aconf, lines 178-189: the generation it selects and the directory it
\* goes on to load, or the IndexError of sorted(...)[0] on an empty list.
GetAconfSelect(entries) ==
    LET sync_dirs == SyncDirs(ListDir(entries))
        sorted == SortedReverse(sync_dirs)
    IN IF sorted = <<>>
       THEN [raised |-> TRUE, latest_generation |-> 0, latest |-> <<>>]
       ELSE [raised |-> FALSE, latest_generation |-> sorted[1],
             latest |-> SyncDirName(sorted[1])]

\* ------------------------------------------------------------------------
\* Python values held by the Notices store, and json.loads
\* ------------------------------------------------------------------------
\* Every value is a record of the same shape: a list carries its items, a dict
\* (a notice) carries level and message.
PyList(items) == [kind |-> "list", items |-> items, level |-> "", message |-> <<>>]

Notice(level, message) ==
    [kind |-> "dict", items |-> <<>>, level |-> level, message |-> message]

\* The tokens the local notices file is drawn from: JSON punctuation and two
\* object literals, each a well-formed {level, message} notice.
JsonTokens == {"[", "]", ",", "n1", "n2"}

JsonObjectValue(tok) ==
    IF tok = "n1" THEN Notice("NOTICE", <<"m1">>) ELSE Notice("WARNING", <<"m2">>)

JsonFail == [ok |-> FALSE, val |-> PyList(<<>>), nxt |-> 0]

\* json.loads, by recursive descent: JsonValue parses one value starting at
\* token i, JsonElements the rest of an array whose "[" has been read.
RECURSIVE JsonValue(_, _), JsonElements(_, _, _)
JsonValue(t, i) ==
    IF i > Len(t) THEN JsonFail
    ELSE IF t[i] \in {"n1", "n2"}
         THEN [ok |-> TRUE, val |-> JsonObjectValue(t[i]), nxt |-> i + 1]
    ELSE IF t[i] = "["
         THEN IF i + 1 <= Len(t) /\ t[i + 1] = "]"
              THEN [ok |-> TRUE, val |-> PyList(<<>>), nxt |-> i + 2]
              ELSE JsonElements(t, i + 1, <<>>)
    ELSE JsonFail

JsonElements(t, i, acc) ==
    LET v == JsonValue(t, i) IN
    IF ~v.ok THEN JsonFail
    ELSE IF v.nxt <= Len(t) /\ t[v.nxt] = ","
         THEN JsonElements(t, v.nxt + 1, Append(acc, v.val))
    ELSE IF v.nxt <= Len(t) /\ t[v.nxt] = "]"
         THEN [ok |-> TRUE, val |-> PyList(Append(acc, v.val)), nxt |-> v.nxt + 1]
    ELSE JsonFail

\* json.loads(local_data): the value, or not ok for a JSONDecodeError.
JsonLoads(t) ==
    LET v == JsonValue(t, 1) IN
    IF v.ok /\ v.nxt = Len(t) + 1 THEN [ok |-> TRUE, val |-> v.val]
    ELSE [ok |-> FALSE, val |-> PyList(<<>>)]

\* json.dumps of a list of the two notice literals (what writes the file).
RECURSIVE JsonDumpItems(_)
JsonDumpItems(ns) ==
    IF ns = <<>> THEN <<>>
    ELSE IF Len(ns) = 1 THEN <<ns[1]>>
    ELSE <<ns[1], ",">> \o JsonDumpItems(Tail(ns))

JsonDumps(ns) == <<"[">> \o JsonDumpItems(ns) \o <<"]">>

\* ------------------------------------------------------------------------
\* class Notices
\* ------------------------------------------------------------------------
\* app.notice_path when no --notices option was given (create_diag_app).
NoPath == "None"
LocalPath == "/ambassador/notices.json"

\* The file the path names: present or not, readable or not, and its text.
NoFile == [exists |-> FALSE, readable |-> FALSE, data |-> <<>>]

\* Notices.__init__
NoticesNew == PyList(<<>>)

BadLocalNotices(local_data) ==
    Notice("ERROR", <<"bad local notices: ">> \o local_data)

\* Notices.reset: the new value of self.notices.  open(None) raises TypeError,
\* which the bare except turns into the ERROR notice with local_data still '';
\* a missing or unreadable file raises OSError, which is passed over; a
\* JSONDecodeError gives the ERROR notice quoting the data read.
NoticesReset(local_path, file) ==
    IF local_path = NoPath THEN PyList(<<BadLocalNotices(<<>>)>>)
    ELSE IF ~file.exists \/ ~file.readable THEN PyList(<<>>)
    ELSE LET loaded == JsonLoads(file.data) IN
         IF loaded.ok THEN loaded.val
         ELSE PyList(<<BadLocalNotices(file.data)>>)

\* Notices.post: self.notices.append(notice); AttributeError when self.notices
\* is not a list.
NoticesPost(store, notice) ==
    IF store.kind = "list"
    THEN [raised |-> FALSE, store |-> PyList(Append(store.items, notice))]
    ELSE [raised |-> TRUE, store |-> store]

\* A variant of prepend that inserts at the end instead of at index 0.
NoticesPrependAtEnd(store, notice) ==
    IF store.kind = "list"
    THEN [raised |-> FALSE, store |-> PyList(Append(store.items, notice))]
    ELSE [raised |-> TRUE, store |-> store]

\* Notices.prepend: self.notices.insert(0, notice)
NoticesPrepend(store, notice) ==
    IF store.kind = "list"
    THEN [raised |-> FALSE, store |-> PyList(<<notice>> \o store.items)]
    ELSE [raised |-> TRUE, store |-> store]

\* Notices.extend: post each notice in turn, stopping at the first that raises.
RECURSIVE NoticesExtend(_, _)
NoticesExtend(store, notices) ==
    IF notices = <<>> THEN [raised |-> FALSE, store |-> store]
    ELSE LET r == NoticesPost(store, Head(notices)) IN
         IF r.raised THEN r ELSE NoticesExtend(r.store, Tail(notices))

\* ------------------------------------------------------------------------
\* The process: state
\* ------------------------------------------------------------------------
\* The gunicorn worker threads (_main: 'threads': workers).
Threads == {"T1", "T2"}

\* entries        the names under app.config_dir_prefix
\* notice_path    app.notice_path (create_diag_app)
\* notice_file    the file notice_path names
\* health_checks  app.health_checks
\* last_update    estats: the time of the last successful update, counted in
\*                updates; 0 when there was none
\* app_scc        app.scc: the directory its SplitConfigChecker was made for
\* app_notices    app.notices.notices
\* log            the lines app.logger has written for the request envelope
\* next_req       the number of requests accepted so far
\* th             per thread: where it is and the locals of its handler
\* responses      per request: what the HTTP layer got back
\* scan           the result of the last stand-alone run of the generation selector
\* last_call      the last stand-alone call of a Notices method, with the store before it
\* view           the view model of a page where only its construction is looked at
\* boot_time      the module global boot_time, set when the module is loaded
\* probed         the status of the latest check_ready answered by a waiting
\*                probe (0 when none was), where probes keep coming
VARIABLES entries, notice_path, notice_file, health_checks, last_update,
          app_scc, app_notices, log, next_req, th, responses, scan, last_call,
          view, boot_time, probed

vars == <<entries, notice_path, notice_file, health_checks, last_update,
          app_scc, app_notices, log, next_req, th, responses, scan, last_call,
          view, boot_time, probed>>

\* app.scc before the first get_aconf: the attribute is not set.
NoScc == <<"unset">>

Requests == 1..MaxRequests

\* The routes: the two probes, the two diagnostic pages, and "handler", any
\* other function wrapped by standard_handler.
ProbeKinds == {"check_alive", "check_ready"}
DiagKinds == {"show_overview", "show_intermediate"}
Kinds == ProbeKinds \cup DiagKinds \cup {"handler"}

\* What a handler gives back: a value that is not a tuple, or (body, status).
Plain(body) == [tuple |-> FALSE, body |-> body, status |-> 0]
Pair(body, status) == [tuple |-> TRUE, body |-> body, status |-> status]

\* A response body: its text and, for a diagnostic page, the notices it shows.
Body(text, notices) == [text |-> text, notices |-> notices]
Text(text) == Body(text, PyList(<<>>))

StatusCodes == {199, 200, 299, 300}

\* What the HTTP layer got for a request (state, result) and, for the record,
\* how it was served (by a probe, or through standard_handler) and what the
\* handler had done: the value it returned, or the class of the exception it
\* raised, and the pipeline stages it had entered.
Response(via, state, result, value, exc, stages) ==
    [via |-> via, state |-> state, result |-> result, value |-> value,
     exc |-> exc, stages |-> stages]

NoResponse == Response("", "none", Plain(Text("")), Plain(Text("")), "", <<>>)

\* The classes of exception a call may raise; all but SystemExit derive from
\* Exception.
ExceptionClasses == {"Exception", "IndexError", "AttributeError"}

IdleThread ==
    [pc |-> "idle", kind |-> "", reqid |-> 0, warned |-> FALSE,
     result |-> Plain(Text("")), status_to_log |-> 0, result_to_log |-> "",
     result_log_level |-> "", exc |-> "", aconf |-> <<>>, reader |-> <<>>,
     dnotices |-> <<>>, stages |-> <<>>]

NoScan == [done |-> FALSE, raised |-> FALSE, latest_generation |-> 0,
           latest |-> <<>>, listed |-> {}]

NoCall == [op |-> "none", before |-> PyList(<<>>), arg |-> <<>>, raised |-> FALSE]

\* The view model of a page, where only its construction is looked at.
NoView == [op |-> "none"]

\* The files the process is started with when whole requests are modelled.
NoticeFiles ==
    {NoFile,
     [exists |-> TRUE, readable |-> TRUE, data |-> JsonDumps(<<"n1">>)]}

\* An entry of the configuration root that is no generation directory.
StrayEntry == <<"1">>

\* The threads in the order the pool hands requests to them: a request goes
\* to the first idle thread.
FirstIdle(t) ==
    /\ th[t].pc = "idle"
    /\ (t = "T2") => th["T1"].pc # "idle"

InitProcess ==
    /\ boot_time = 0
    /\ probed = 0
    /\ last_update = 0
    /\ app_scc = NoScc
    /\ log = <<>>
    /\ next_req = 0
    /\ th = [t \in Threads |-> IdleThread]
    /\ responses = [r \in Requests |-> NoResponse]
    /\ scan = NoScan
    /\ last_call = NoCall

Init ==
    /\ InitProcess
    /\ view = NoView
    /\ entries = {StrayEntry}
    /\ app_notices = NoticesNew
    /\ health_checks \in BOOLEAN
    /\ notice_path \in {NoPath, LocalPath}
    /\ notice_file \in NoticeFiles
    /\ (notice_path = NoPath) => (notice_file = NoFile)

\* ------------------------------------------------------------------------
\* Health state (EnvoyStats) and the probes
\* ------------------------------------------------------------------------
\* estats.is_alive(): true once the process is up.
IsAlive == TRUE

\* estats.is_ready(): true iff an update has succeeded.
IsReady == last_update # 0

\* A variant of envoy_status that reports the liveness boolean as readiness.
EnvoyStatusReadyFromAlive == [alive |-> IsAlive, ready |-> IsAlive]

\* envoy_status: the two booleans (the uptime and since_update texts are left
\* out of the bodies below).
EnvoyStatus == [alive |-> IsAlive, ready |-> IsReady]

\* check_alive
CheckAlive ==
    LET status == EnvoyStatus IN
    IF status.alive
    THEN Pair(Text("ambassador liveness check OK"), 200)
    ELSE Pair(Text("ambassador seems to have died"), 503)

\* A variant of check_ready that tests the alive boolean.
CheckReadyFromAlive ==
    LET status == EnvoyStatus IN
    IF status.alive
    THEN Pair(Text("ambassador readiness check OK"), 200)
    ELSE Pair(Text("ambassador not ready"), 503)

\* check_ready
CheckReady ==
    LET status == EnvoyStatus IN
    IF status.ready
    THEN Pair(Text("ambassador readiness check OK"), 200)
    ELSE Pair(Text("ambassador not ready"), 503)

\* A variant of load that starts the updater only without health checks.
UpdaterStartedWithoutChecks == ~health_checks

\* A variant of load that starts the updater whatever health_checks is.
UpdaterStartedAlways == TRUE

\* StandaloneApplication.load: the PeriodicTrigger exists only with health checks.
UpdaterStarted == health_checks

\* One firing of the PeriodicTrigger: estats.update() refreshes the statistics
\* and, when that succeeds, records the time; a failed refresh changes nothing.
Update ==
    /\ UpdaterStarted
    /\ last_update < MaxUpdates
    /\ \E ok \in BOOLEAN :
          last_update' = IF ok THEN last_update + 1 ELSE last_update
    /\ UNCHANGED <<boot_time, probed, view, entries, notice_path, notice_file, health_checks, app_scc,
                   app_notices, log, next_req, th, responses, scan, last_call>>

\* check_alive / check_ready: a probe request is answered by an idle thread;
\* the probes are not wrapped by standard_handler.
Probe(t, kind) ==
    /\ FirstIdle(t)
    /\ next_req < MaxRequests
    /\ next_req' = next_req + 1
    /\ LET result == IF kind = "check_alive" THEN CheckAlive ELSE CheckReady IN
       responses' = [responses EXCEPT ![next_req + 1] =
          Response(kind, "returned", result, result, "", <<>>)]
    /\ UNCHANGED <<boot_time, probed, view, entries, notice_path, notice_file, health_checks,
                   last_update, app_scc, app_notices, log, th, scan, last_call>>

\* ------------------------------------------------------------------------
\* standard_handler
\* ------------------------------------------------------------------------
LogLine(reqid, line, level, status, result) ==
    [reqid |-> reqid, line |-> line, level |-> level, status |-> status,
     result |-> result]

\* wrapper, lines 101-114: a fresh reqid, the START line and the defaults
\* ("Default to the exception case").
WrapperStart(t, kind) ==
    /\ FirstIdle(t)
    /\ next_req < MaxRequests
    /\ next_req' = next_req + 1
    /\ log' = Append(log, LogLine(next_req + 1, "START", "INFO", 0, ""))
    /\ th' = [th EXCEPT ![t] =
          [IdleThread EXCEPT
              !.pc = IF kind = "handler" THEN "handler" ELSE "get_aconf",
              !.kind = kind,
              !.reqid = next_req + 1,
              !.result_to_log = "server error",
              !.status_to_log = 500,
              !.result_log_level = "ERROR",
              !.result = Pair(Text("server error"), 500)]]
    /\ UNCHANGED <<boot_time, probed, view, entries, notice_path, notice_file, health_checks,
                   last_update, app_scc, app_notices, responses, scan, last_call>>

\* What a call of the wrapped function can do: return a value, raise an
\* exception that derives from Exception, or raise one that does not
\* (SystemExit, KeyboardInterrupt, GeneratorExit).
HandlerReturns ==
    {Plain(Text("page"))} \cup {Pair(Text("page"), s) : s \in StatusCodes}

\* The function returned: line 117 assigns result.
Returned(rec, value) == [rec EXCEPT !.pc = "returned", !.result = value]

\* The function raised an exception of a class deriving from Exception:
\* control is in the except clause, result and the *_to_log locals still hold
\* the defaults.
Raised(rec, exc) == [rec EXCEPT !.pc = "raised", !.exc = exc]

\* wrapper, line 117, for a wrapped function other than the two pages.
HandlerRun(t) ==
    /\ th[t].pc = "handler"
    /\ \/ /\ \E value \in HandlerReturns :
                th' = [th EXCEPT ![t] = Returned(th[t], value)]
          /\ UNCHANGED responses
       \/ /\ th' = [th EXCEPT ![t] = Raised(th[t], "Exception")]
          /\ UNCHANGED responses
       \/ \* SystemExit: no except clause matches, it leaves the wrapper
          /\ th' = [th EXCEPT ![t] = IdleThread]
          /\ responses' = [responses EXCEPT ![th[t].reqid] =
                Response("standard_handler", "propagated", Plain(Text("")),
                         Plain(Text("")), "SystemExit", <<>>)]
    /\ UNCHANGED <<boot_time, probed, view, entries, notice_path, notice_file, health_checks,
                   last_update, app_scc, app_notices, log, next_req, scan,
                   last_call>>

\* A variant of the classification in which only status 200 is a success.
ClassifyOnly200(value) ==
    LET result == IF ~value.tuple THEN Pair(value.body, 200) ELSE value
        status_to_log == result.status
    IN IF status_to_log = 200
       THEN [result |-> result, status_to_log |-> status_to_log,
             result_log_level |-> "INFO", result_to_log |-> "success"]
       ELSE [result |-> result, status_to_log |-> status_to_log,
             result_log_level |-> "ERROR", result_to_log |-> "failure"]

\* wrapper, lines 118-128: what is logged for a returned value.
Classify(value) ==
    LET result == IF ~value.tuple THEN Pair(value.body, 200) ELSE value
        status_to_log == result.status
    IN IF (status_to_log \div 100) = 2
       THEN [result |-> result, status_to_log |-> status_to_log,
             result_log_level |-> "INFO", result_to_log |-> "success"]
       ELSE [result |-> result, status_to_log |-> status_to_log,
             result_log_level |-> "ERROR", result_to_log |-> "failure"]

\* A variant of the wrapper whose except clause sets the outcome 'failure'.
OutcomeAsFailure(t) ==
    IF th[t].pc = "returned" THEN Classify(th[t].result)
    ELSE [result |-> th[t].result, status_to_log |-> th[t].status_to_log,
          result_log_level |-> th[t].result_log_level,
          result_to_log |-> "failure"]

\* The locals of the wrapper when it reaches line 132.
Outcome(t) ==
    IF th[t].pc = "returned" THEN Classify(th[t].result)
    ELSE [result |-> th[t].result, status_to_log |-> th[t].status_to_log,
          result_log_level |-> th[t].result_log_level,
          result_to_log |-> th[t].result_to_log]

\* wrapper, lines 118-137: classify, write the completion line, return.
WrapperFinish(t) ==
    /\ th[t].pc \in {"returned", "raised"}
    /\ LET o == Outcome(t) IN
       /\ log' = Append(log, LogLine(th[t].reqid, "DONE", o.result_log_level,
                                     o.status_to_log, o.result_to_log))
       /\ responses' = [responses EXCEPT ![th[t].reqid] =
             Response("standard_handler", "returned", o.result,
                      IF th[t].pc = "returned" THEN th[t].result ELSE Plain(Text("")),
                      th[t].exc, th[t].stages)]
    /\ th' = [th EXCEPT ![t] = IdleThread]
    /\ UNCHANGED <<boot_time, probed, view, entries, notice_path, notice_file, health_checks,
                   last_update, app_scc, app_notices, next_req, scan, last_call>>

\* ------------------------------------------------------------------------
\* show_overview / show_intermediate: the rebuild pipeline
\* ------------------------------------------------------------------------
\* The generation directories that appear under the configuration root while
\* whole requests are modelled: sync-1 and sync-10.
GenerationNames == {<<SyncPrefix, "1">>, <<SyncPrefix, "1", "0">>}

\* What scout.report returns under 'notices'.
ScoutNotices == {<<Notice("WARNING", <<"scout">>)>>}

\* The notices of diag.as_dict(): (key, text) pairs, in the mapping's order.
DiagNotices == {<<<<"svcA", "note">>>>}

\* A stage has run for the thread's request.
Ran(rec, stage) == [rec EXCEPT !.stages = Append(@, stage)]

\* A new generation directory appears under the configuration root.
NewGeneration(name) ==
    /\ name \notin entries
    /\ Cardinality(entries \cap GenerationNames) < MaxGenerations
    /\ entries' = entries \cup {name}
    /\ UNCHANGED <<boot_time, probed, view, notice_path, notice_file, health_checks, last_update,
                   app_scc, app_notices, log, next_req, th, responses, scan,
                   last_call>>

\* get_aconf: select the generation (IndexError when there is none), make the
\* SplitConfigChecker, load the configuration, replace and reset the notices.
\* SplitConfigChecker and load_from_directory may raise.
GetAconf(t) ==
    /\ th[t].pc = "get_aconf"
    /\ LET sel == GetAconfSelect(entries)
           me == Ran(th[t], "select")
       IN IF sel.raised
          THEN /\ th' = [th EXCEPT ![t] = Raised(me, "IndexError")]
               /\ UNCHANGED <<app_scc, app_notices>>
          ELSE \/ \* SplitConfigChecker raises
                  /\ th' = [th EXCEPT ![t] = Raised(me, "Exception")]
                  /\ UNCHANGED <<app_scc, app_notices>>
               \/ \* load_from_directory raises
                  /\ th' = [th EXCEPT ![t] = Raised(Ran(me, "load"), "Exception")]
                  /\ app_scc' = sel.latest
                  /\ UNCHANGED app_notices
               \/ /\ th' = [th EXCEPT ![t] =
                        [Ran(me, "load") EXCEPT !.pc = "ir", !.aconf = sel.latest]]
                  /\ app_scc' = sel.latest
                  /\ app_notices' = NoticesReset(notice_path, notice_file)
    /\ UNCHANGED <<boot_time, probed, view, entries, notice_path, notice_file, health_checks,
                   last_update, log, next_req, responses, scan, last_call>>

\* ir = IR(aconf, secret_reader=app.scc.secret_reader)
BuildIR(t) ==
    /\ th[t].pc = "ir"
    /\ \/ th' = [th EXCEPT ![t] =
             [Ran(th[t], "ir") EXCEPT !.pc = "scout", !.reader = app_scc]]
       \/ th' = [th EXCEPT ![t] = Raised(Ran(th[t], "ir"), "Exception")]
    /\ UNCHANGED <<boot_time, probed, view, entries, notice_path, notice_file, health_checks,
                   last_update, app_scc, app_notices, log, next_req, responses,
                   scan, last_call>>

\* check_scout: report, then app.notices.extend(the report's notices).
CheckScout(t) ==
    /\ th[t].pc = "scout"
    /\ \/ /\ th' = [th EXCEPT ![t] = Raised(Ran(th[t], "scout"), "Exception")]
          /\ UNCHANGED app_notices
       \/ \E notices \in ScoutNotices :
             LET r == NoticesExtend(app_notices, notices) IN
             /\ app_notices' = r.store
             /\ th' = [th EXCEPT ![t] =
                   IF r.raised THEN Raised(Ran(th[t], "scout"), "AttributeError")
                   ELSE [Ran(th[t], "scout") EXCEPT !.pc = "econf"]]
    /\ UNCHANGED <<boot_time, probed, view, entries, notice_path, notice_file, health_checks,
                   last_update, app_scc, log, next_req, responses, scan,
                   last_call>>

\* A variant of the page in which the proxy configuration is not generated
\* again but taken as it is.
GenerateSkipped(t) ==
    /\ th[t].pc = "econf"
    /\ th' = [th EXCEPT ![t] = [th[t] EXCEPT !.pc = "diag"]]
    /\ UNCHANGED <<boot_time, probed, view, entries, notice_path, notice_file,
                   health_checks, last_update, app_scc, app_notices, log,
                   next_req, responses, scan, last_call>>

\* econf = EnvoyConfig.generate(ir, "V2")
Generate(t) ==
    /\ th[t].pc = "econf"
    /\ \/ th' = [th EXCEPT ![t] = [Ran(th[t], "econf") EXCEPT !.pc = "diag"]]
       \/ th' = [th EXCEPT ![t] = Raised(Ran(th[t], "econf"), "Exception")]
    /\ UNCHANGED <<boot_time, probed, view, entries, notice_path, notice_file, health_checks,
                   last_update, app_scc, app_notices, log, next_req, responses,
                   scan, last_call>>

\* diag = Diagnostics(ir, econf), then diag.overview / diag.lookup
Diag(t) ==
    /\ th[t].pc = "diag"
    /\ \/ \E dn \in DiagNotices :
             th' = [th EXCEPT ![t] =
                [Ran(th[t], "diag") EXCEPT !.pc = "collect", !.dnotices = dn]]
       \/ th' = [th EXCEPT ![t] = Raised(Ran(th[t], "diag"), "Exception")]
    /\ UNCHANGED <<boot_time, probed, view, entries, notice_path, notice_file, health_checks,
                   last_update, app_scc, app_notices, log, next_req, responses,
                   scan, last_call>>

\* The loop of collect_errors_and_notices that posts the diagnostics' notices.
RECURSIVE PostDiagNotices(_, _)
PostDiagNotices(store, dnotices) ==
    IF dnotices = <<>> THEN [raised |-> FALSE, store |-> store]
    ELSE LET pair == Head(dnotices)
             r == NoticesPost(store,
                     Notice("NOTICE", <<pair[1], ": ", pair[2]>>))
         IN IF r.raised THEN r ELSE PostDiagNotices(r.store, Tail(dnotices))

LogLevelNotice == Notice("WARNING", <<"Could not update log level!">>)

\* What request.args.get('loglevel') and estats.update_log_levels give: no
\* change asked for, a change that succeeded, a change that failed.
LogLevelCases == {"none", "updated", "failed"}

\* A variant of collect_errors_and_notices in which a log level change that
\* succeeds is recorded as an update of the statistics.
CollectRecordingUpdate(t) ==
    /\ th[t].pc = "collect"
    /\ \E loglevel \in LogLevelCases :
          LET p == IF loglevel = "failed"
                   THEN NoticesPrepend(app_notices, LogLevelNotice)
                   ELSE [raised |-> FALSE, store |-> app_notices]
              r == IF p.raised THEN p ELSE PostDiagNotices(p.store, th[t].dnotices)
          IN /\ app_notices' = r.store
             /\ last_update' = IF loglevel = "updated" THEN 1 ELSE last_update
             /\ th' = [th EXCEPT ![t] =
                   LET me == [Ran(th[t], "collect") EXCEPT
                                 !.warned = (loglevel = "failed")]
                   IN IF r.raised THEN Raised(me, "AttributeError")
                      ELSE [me EXCEPT !.pc = "merge"]]
    /\ UNCHANGED <<boot_time, probed, view, entries, notice_path, notice_file,
                   health_checks, app_scc, log, next_req, responses, scan,
                   last_call>>

\* collect_errors_and_notices: the log level change when one is asked for, the
\* WARNING notice when it fails, then the diagnostics' notices.
Collect(t) ==
    /\ th[t].pc = "collect"
    /\ \E loglevel \in LogLevelCases :
          LET p == IF loglevel = "failed"
                   THEN NoticesPrepend(app_notices, LogLevelNotice)
                   ELSE [raised |-> FALSE, store |-> app_notices]
              r == IF p.raised THEN p ELSE PostDiagNotices(p.store, th[t].dnotices)
          IN /\ app_notices' = r.store
             /\ th' = [th EXCEPT ![t] =
                   LET me == [Ran(th[t], "collect") EXCEPT
                                 !.warned = (loglevel = "failed")]
                   IN IF r.raised THEN Raised(me, "AttributeError")
                      ELSE [me EXCEPT !.pc = "merge"]]
    /\ UNCHANGED <<boot_time, probed, view, entries, notice_path, notice_file, health_checks,
                   last_update, app_scc, log, next_req, responses, scan,
                   last_call>>

\* tvars = dict(..., notices=app.notices.notices, ...) and the rendering; the
\* page is what the handler returns.
Merge(t) ==
    /\ th[t].pc = "merge"
    /\ \/ th' = [th EXCEPT ![t] =
             Returned(Ran(th[t], "merge"), Plain(Body("page", app_notices)))]
       \/ th' = [th EXCEPT ![t] = Raised(Ran(th[t], "merge"), "Exception")]
    /\ UNCHANGED <<boot_time, probed, view, entries, notice_path, notice_file, health_checks,
                   last_update, app_scc, app_notices, log, next_req, responses,
                   scan, last_call>>

\* ------------------------------------------------------------------------
\* The process
\* ------------------------------------------------------------------------
Next ==
    \/ Update
    \/ \E name \in GenerationNames : NewGeneration(name)
    \/ \E t \in Threads, kind \in ProbeKinds : Probe(t, kind)
    \/ \E t \in Threads, kind \in DiagKinds \cup {"handler"} : WrapperStart(t, kind)
    \/ \E t \in Threads : HandlerRun(t)
    \/ \E t \in Threads : GetAconf(t)
    \/ \E t \in Threads : BuildIR(t)
    \/ \E t \in Threads : CheckScout(t)
    \/ \E t \in Threads : Generate(t)
    \/ \E t \in Threads : Diag(t)
    \/ \E t \in Threads : Collect(t)
    \/ \E t \in Threads : Merge(t)
    \/ \E t \in Threads : WrapperFinish(t)

Spec == Init /\ [][Next]_vars

\* ------------------------------------------------------------------------
\* The generation selector on its own
\* ------------------------------------------------------------------------
\* Any entry appears under the configuration root.
CreateDir(name) ==
    /\ name \notin entries
    /\ Cardinality(entries) < MaxEntries
    /\ entries' = entries \cup {name}
    /\ UNCHANGED <<boot_time, probed, view, notice_path, notice_file, health_checks, last_update,
                   app_scc, app_notices, log, next_req, th, responses, scan,
                   last_call>>

\* get_aconf scans the configuration root as it is now.
RunSelector ==
    /\ LET sel == GetAconfSelect(entries) IN
       scan' = [done |-> TRUE, raised |-> sel.raised,
                latest_generation |-> sel.latest_generation,
                latest |-> sel.latest, listed |-> entries]
    /\ UNCHANGED <<boot_time, probed, view, entries, notice_path, notice_file, health_checks,
                   last_update, app_scc, app_notices, log, next_req, th,
                   responses, last_call>>

InitSel ==
    /\ InitProcess
    /\ view = NoView
    /\ entries = {}
    /\ health_checks = FALSE
    /\ notice_path = NoPath
    /\ notice_file = NoFile
    /\ app_notices = NoticesNew

SelNext ==
    \/ \E name \in AllNames : CreateDir(name)
    \/ RunSelector

SelSpec == InitSel /\ [][SelNext]_vars

\* ------------------------------------------------------------------------
\* The Notices store on its own
\* ------------------------------------------------------------------------
\* Every text of at most MaxFileLen tokens.
AllData == UNION {[1..k -> JsonTokens] : k \in 0..MaxFileLen}

\* Every state of the local notices file: missing, unreadable, or any text.
AllFiles ==
    {NoFile, [exists |-> TRUE, readable |-> FALSE, data |-> <<>>]}
    \cup {[exists |-> TRUE, readable |-> TRUE, data |-> d] : d \in AllData}

\* Notices a request may hand to post, prepend and extend.
ArgNotices == {Notice("NOTICE", <<"a">>), Notice("WARNING", <<"b">>)}

ArgSequences == UNION {[1..k -> ArgNotices] : k \in 0..MaxStore}

\* What the store may hold before a reset.
PriorStores ==
    {PyList(<<>>)} \cup {PyList(<<n>>) : n \in ArgNotices}
    \cup {PyList(<<n, m>>) : n \in ArgNotices, m \in ArgNotices}

\* The store has room for k more notices (a bound of the model).
Room(k) == (app_notices.kind = "list") => (Len(app_notices.items) + k <= MaxStore)

Called(op, arg, raised) ==
    [op |-> op, before |-> app_notices, arg |-> arg, raised |-> raised]

CallReset ==
    /\ app_notices' = NoticesReset(notice_path, notice_file)
    /\ last_call' = Called("reset", <<>>, FALSE)
    /\ UNCHANGED <<boot_time, probed, view, entries, notice_path, notice_file, health_checks,
                   last_update, app_scc, log, next_req, th, responses, scan>>

CallPost(notice) ==
    /\ Room(1)
    /\ LET r == NoticesPost(app_notices, notice) IN
       /\ app_notices' = r.store
       /\ last_call' = Called("post", <<notice>>, r.raised)
    /\ UNCHANGED <<boot_time, probed, view, entries, notice_path, notice_file, health_checks,
                   last_update, app_scc, log, next_req, th, responses, scan>>

CallPrepend(notice) ==
    /\ Room(1)
    /\ LET r == NoticesPrepend(app_notices, notice) IN
       /\ app_notices' = r.store
       /\ last_call' = Called("prepend", <<notice>>, r.raised)
    /\ UNCHANGED <<boot_time, probed, view, entries, notice_path, notice_file, health_checks,
                   last_update, app_scc, log, next_req, th, responses, scan>>

CallExtend(notices) ==
    /\ Room(Len(notices))
    /\ LET r == NoticesExtend(app_notices, notices) IN
       /\ app_notices' = r.store
       /\ last_call' = Called("extend", notices, r.raised)
    /\ UNCHANGED <<boot_time, probed, view, entries, notice_path, notice_file, health_checks,
                   last_update, app_scc, log, next_req, th, responses, scan>>

\* reset() from any prior contents, for every state of the file.
InitReset ==
    /\ InitProcess
    /\ view = NoView
    /\ entries = {}
    /\ health_checks = FALSE
    /\ notice_path \in {NoPath, LocalPath}
    /\ notice_file \in AllFiles
    /\ (notice_path = NoPath) => (notice_file = NoFile)
    /\ app_notices \in PriorStores

ResetSpec == InitReset /\ [][CallReset]_vars

\* The files the store is loaded from when its other methods are exercised:
\* none, an array of one notice, and a JSON object.
StoreFiles ==
    NoticeFiles \cup {[exists |-> TRUE, readable |-> TRUE, data |-> <<"n1">>]}

InitNotices ==
    /\ InitProcess
    /\ view = NoView
    /\ entries = {}
    /\ health_checks = FALSE
    /\ notice_path \in {NoPath, LocalPath}
    /\ notice_file \in StoreFiles
    /\ (notice_path = NoPath) => (notice_file = NoFile)
    /\ app_notices = NoticesNew

NoticesNext ==
    \/ CallReset
    \/ \E notice \in ArgNotices : CallPost(notice)
    \/ \E notice \in ArgNotices : CallPrepend(notice)
    \/ \E notices \in ArgSequences : CallExtend(notices)

NoticesSpec == InitNotices /\ [][NoticesNext]_vars

\* ------------------------------------------------------------------------
\* collect_errors_and_notices on its own: the errors it returns
\* ------------------------------------------------------------------------
MaxErrorKeys == 2
MaxErrorsPerKey == 2

\* The keys of the errors mapping of diag.as_dict() and the messages.
ErrorKeys == {"-global-", "svcA", "svcB"}
ErrorMessages == {"X", "Y"}

\* The lists of {'error': message} entries a key may carry.
ErrorLists ==
    UNION {[1..k -> {[error |-> m] : m \in ErrorMessages}] : k \in 0..MaxErrorsPerKey}

\* A mapping is the sequence of its (key, value) items in the mapping's order;
\* no key occurs twice.
DistinctKeys(items) ==
    \A i, j \in 1..Len(items) : (items[i][1] = items[j][1]) => (i = j)

ErrorMappings ==
    {d \in UNION {[1..k -> ErrorKeys \X ErrorLists] : k \in 0..MaxErrorKeys} :
        DistinctKeys(d)}

\* diag.as_dict(): with or without the key 'errors', and its notices.
DiagDicts ==
    {[has_errors |-> TRUE, errors |-> d, notices |-> n] :
        d \in ErrorMappings, n \in DiagNotices}
    \cup {[has_errors |-> FALSE, errors |-> <<>>, notices |-> n] : n \in DiagNotices}

\* ddict.pop('errors', {})
PopErrors(ddict) == IF ddict.has_errors THEN ddict.errors ELSE <<>>

\* The inner loop: errors.append((err_key, err['error'])) for each err.
RECURSIVE AppendErrors(_, _, _)
AppendErrors(errors, err_key, err_list) ==
    IF err_list = <<>> THEN errors
    ELSE AppendErrors(Append(errors, <<err_key, Head(err_list).error>>),
                      err_key, Tail(err_list))

\* A variant of the outer loop that keeps the key "-global-" as it is.
RECURSIVE FlattenErrorsKeepGlobal(_, _)
FlattenErrorsKeepGlobal(errors, derrors) ==
    IF derrors = <<>> THEN errors
    ELSE FlattenErrorsKeepGlobal(
             AppendErrors(errors, Head(derrors)[1], Head(derrors)[2]),
             Tail(derrors))

\* The outer loop over derrors.items(), "-global-" rewritten to "".
RECURSIVE FlattenErrors(_, _)
FlattenErrors(errors, derrors) ==
    IF derrors = <<>> THEN errors
    ELSE LET item == Head(derrors)
             err_key == IF item[1] = "-global-" THEN "" ELSE item[1]
         IN FlattenErrors(AppendErrors(errors, err_key, item[2]), Tail(derrors))

\* collect_errors_and_notices called with a diagnostics dict: the log level
\* change, the notices posted to the store, and the errors of the dict it
\* returns.
CollectErrors ==
    /\ view.op = "as_dict"
    /\ \E loglevel \in LogLevelCases :
          LET p == IF loglevel = "failed"
                   THEN NoticesPrepend(app_notices, LogLevelNotice)
                   ELSE [raised |-> FALSE, store |-> app_notices]
              r == IF p.raised THEN p
                   ELSE PostDiagNotices(p.store, view.ddict.notices)
          IN /\ app_notices' = r.store
             /\ view' = [op |-> "collect_errors_and_notices",
                         ddict |-> view.ddict,
                         raised |-> r.raised,
                         errors |-> FlattenErrors(<<>>, PopErrors(view.ddict))]
    /\ UNCHANGED <<boot_time, probed, entries, notice_path, notice_file,
                   health_checks,
                   last_update, app_scc, log, next_req, th, responses, scan,
                   last_call>>

InitErrors ==
    /\ InitProcess
    /\ entries = {}
    /\ health_checks = FALSE
    /\ notice_path = NoPath
    /\ notice_file = NoFile
    /\ app_notices = NoticesNew
    /\ \E ddict \in DiagDicts :
          view = [op |-> "as_dict", ddict |-> ddict, raised |-> FALSE,
                  errors |-> <<>>]

ErrorsSpec == InitErrors /\ [][CollectErrors]_vars

\* ------------------------------------------------------------------------
\* The view model (tvars) of show_overview / show_intermediate on its own
\* ------------------------------------------------------------------------
\* The keyword arguments written out in the dict(...) call of both pages, and
\* the two more of show_intermediate.
GenericKeys == <<"system", "envoy_status", "loginfo", "notices">>
LocalKeys == <<"method", "resource">>

\* Keys the output of diag.overview / diag.lookup may have, and keys
\* diag.as_dict() may have besides 'errors' and 'notices'.
ResultKeys == {"notices", "method", "errors", "clusters"}
AsDictKeys == {"system", "clusters"}

\* The items (key, value) of a mapping with the given keys, every value
\* marked with the source it comes from.
RECURSIVE ItemsOf(_, _)
ItemsOf(keys, source) ==
    IF keys = {} THEN <<>>
    ELSE LET k == CHOOSE x \in keys : TRUE
         IN <<<<k, source>>>> \o ItemsOf(keys \ {k}, source)

Keywords(keys, source) == [i \in 1..Len(keys) |-> <<keys[i], source>>]

\* The dict collect_errors_and_notices returns: as_dict() without 'errors'
\* and 'notices', then ddict['errors'] = errors.
DdictItems(keys) == ItemsOf(keys, "ddict") \o <<<<"errors", "ddict">>>>

TypeError == [raised |-> TRUE, items |-> <<>>]

\* dict(k=v, ..., **m1, **m2): the keywords and the unpacked mappings make
\* one set of keyword arguments; a key given twice raises TypeError ("got
\* multiple values for keyword argument").
PyDictCall(keywords, m1, m2) ==
    LET kwargs == keywords \o m1 \o m2
    IN IF DistinctKeys(kwargs) THEN [raised |-> FALSE, items |-> kwargs]
       ELSE TypeError

\* tvars of show_overview and of show_intermediate.
Tvars(kind, result, ddict) ==
    IF kind = "show_overview"
    THEN PyDictCall(Keywords(GenericKeys, "generic"), result, ddict)
    ELSE PyDictCall(Keywords(GenericKeys, "generic")
                       \o Keywords(LocalKeys, "request"), result, ddict)

\* The page builds its view model from the output of overview / lookup and the
\* dict of collect_errors_and_notices.
BuildTvars ==
    /\ view.op = "diag"
    /\ LET r == Tvars(view.kind, view.result, view.ddict)
       IN view' = [op |-> "tvars", kind |-> view.kind, result |-> view.result,
                   ddict |-> view.ddict, raised |-> r.raised, tvars |-> r.items]
    /\ UNCHANGED <<boot_time, probed, entries, notice_path, notice_file,
                   health_checks,
                   last_update, app_scc, app_notices, log, next_req, th,
                   responses, scan, last_call>>

InitTvars ==
    /\ InitProcess
    /\ entries = {}
    /\ health_checks = FALSE
    /\ notice_path = NoPath
    /\ notice_file = NoFile
    /\ app_notices = NoticesNew
    /\ \E kind \in DiagKinds, rk \in SUBSET ResultKeys, dk \in SUBSET AsDictKeys :
          view = [op |-> "diag", kind |-> kind,
                  result |-> ItemsOf(rk, "result"), ddict |-> DdictItems(dk),
                  raised |-> FALSE, tvars |-> <<>>]

TvarsSpec == InitTvars /\ [][BuildTvars]_vars

\* ------------------------------------------------------------------------
\* The process with probes that keep coming
\* ------------------------------------------------------------------------
\* A firing of the PeriodicTrigger whose refresh succeeds.
UpdateSucceeds == Update /\ last_update' # last_update

\* check_ready for a probe that waits until the pool has a free thread; its
\* status is kept as the latest answer. Probes come again and again, so they
\* are not counted among the requests.
AnswerReady(t) ==
    /\ FirstIdle(t)
    /\ probed' = CheckReady.status
    /\ UNCHANGED <<boot_time, view, entries, notice_path, notice_file,
                   health_checks, last_update, app_scc, app_notices, log,
                   next_req, th, responses, scan, last_call>>

InitLive ==
    /\ InitProcess
    /\ view = NoView
    /\ entries = {StrayEntry}
    /\ app_notices = NoticesNew
    /\ health_checks \in BOOLEAN
    /\ notice_path = LocalPath
    /\ notice_file = NoFile

LiveNext ==
    \/ Update
    \/ \E name \in GenerationNames : NewGeneration(name)
    \/ \E t \in Threads : AnswerReady(t)
    \/ \E t \in Threads, kind \in DiagKinds : WrapperStart(t, kind)
    \/ \E t \in Threads : GetAconf(t)
    \/ \E t \in Threads : BuildIR(t)
    \/ \E t \in Threads : CheckScout(t)
    \/ \E t \in Threads : Generate(t)
    \/ \E t \in Threads : Diag(t)
    \/ \E t \in Threads : Collect(t)
    \/ \E t \in Threads : Merge(t)
    \/ \E t \in Threads : WrapperFinish(t)

\* The timer thread of the PeriodicTrigger runs whatever the worker threads
\* do, a waiting probe is taken by a thread that stays free, and a wrapper
\* whose handler is over writes its line and returns; nothing makes a thread
\* inside the pipeline go on.
LiveSpec ==
    /\ InitLive
    /\ [][LiveNext]_vars
    /\ WF_vars(UpdateSucceeds)
    /\ WF_vars(\E t \in Threads : AnswerReady(t))
    /\ WF_vars(\E t \in Threads : WrapperFinish(t))

\* ------------------------------------------------------------------------
\* Properties of the generation selector (checked under SelSpec)
\* ------------------------------------------------------------------------
\* A name of the form 'sync-' followed by an integer, and that integer.
IsGenerationName(name) == StartsWithSync(name) /\ PyInt(Tail(name)).ok

GenerationNumber(name) == PyInt(Tail(name)).val

GenerationsListed == {n \in scan.listed : IsGenerationName(n)}

Maximum(S) == CHOOSE x \in S : \A y \in S : y <= x

\* C5: whenever the listing holds at least one name of the form 'sync-'
\* followed by an integer, the selector does not fail and selects the
\* numerically greatest integer suffix among those names; every other entry
\* is ignored.
C5_SelectsMaximumSuffix ==
    (scan.done /\ GenerationsListed # {}) =>
        /\ ~scan.raised
        /\ scan.latest_generation =
              Maximum({GenerationNumber(n) : n \in GenerationsListed})

\* The listing held sync-1 and sync-sync-9 and the selector chose 9.
C5_Witness ==
    /\ scan.done
    /\ scan.listed = {<<SyncPrefix, "1">>, <<SyncPrefix, SyncPrefix, "9">>}
    /\ scan.latest_generation = 9

\* C6: whenever selection succeeds, the directory get_aconf goes on to load
\* is one of the entries it enumerated, and that entry's suffix is the
\* selected generation.
C6_SelectedPathIsListed ==
    (scan.done /\ ~scan.raised) =>
        /\ scan.latest \in scan.listed
        /\ IsGenerationName(scan.latest)
        /\ GenerationNumber(scan.latest) = scan.latest_generation


\* The listing held only sync-01 and the selector went on to load sync-1.
C6_Witness ==
    /\ scan.done
    /\ scan.listed = {<<SyncPrefix, "0", "1">>}
    /\ scan.latest = <<SyncPrefix, "1">>
\* ------------------------------------------------------------------------
\* Properties of Notices.reset (checked under ResetSpec)
\* ------------------------------------------------------------------------
\* The arrays of notices a file may hold, as the literals written to it.
NoticeArrays == UNION {[1..k -> {"n1", "n2"}] : k \in 0..MaxFileLen}

\* The file is there, can be read, and holds the JSON text of array ns.
FileHoldsArray(ns) ==
    /\ notice_path = LocalPath
    /\ notice_file.exists
    /\ notice_file.readable
    /\ notice_file.data = JsonDumps(ns)

\* No file: no path was configured, or the path names no file.
FileAbsent == notice_path = NoPath \/ ~notice_file.exists

NoticesOf(ns) == PyList([i \in 1..Len(ns) |-> JsonObjectValue(ns[i])])

\* C8: after reset(), whatever the store held before: a file holding a JSON
\* array of notices gives exactly that array, in order; no file (no path
\* configured, or the path names no file) gives the empty sequence.
C8_ResetReflectsFile ==
    (last_call.op = "reset") =>
        /\ \A ns \in NoticeArrays :
              FileHoldsArray(ns) => app_notices = NoticesOf(ns)
        /\ FileAbsent => app_notices = PyList(<<>>)

\* reset() ran with no path configured on a store that held two notices, and
\* left one ERROR notice.
C8_Witness ==
    /\ last_call.op = "reset"
    /\ notice_path = NoPath
    /\ Len(last_call.before.items) = 2
    /\ app_notices = PyList(<<BadLocalNotices(<<>>)>>)

\* C9: after reset() on a file that exists but cannot be read, or whose
\* content is not a JSON array of notices, the store is a list of exactly
\* one notice, of level ERROR.
C9_BadFileGivesOneError ==
    (/\ last_call.op = "reset"
     /\ notice_path = LocalPath
     /\ notice_file.exists
     /\ \/ ~notice_file.readable
        \/ \A ns \in NoticeArrays : notice_file.data # JsonDumps(ns)) =>
        /\ app_notices.kind = "list"
        /\ Len(app_notices.items) = 1
        /\ app_notices.items[1].level = "ERROR"


\* reset() ran on a file holding one JSON object and left the store holding
\* that object, not a list.
C9_Witness ==
    /\ last_call.op = "reset"
    /\ notice_path = LocalPath
    /\ notice_file.readable
    /\ notice_file.data = <<"n1">>
    /\ app_notices.kind = "dict"
\* ------------------------------------------------------------------------
\* Properties of post, prepend and extend (checked under NoticesSpec)
\* ------------------------------------------------------------------------
\* C10: on a store holding the sequence s, prepend(n) leaves <n> followed by
\* s, post(n) leaves s followed by n, and extend(ns) leaves s followed by ns
\* in the order given; none of them fails, drops or reorders what s held.
C10_StoreOperations ==
    LET s == last_call.before IN
    (last_call.op \in {"post", "prepend", "extend"} /\ s.kind = "list") =>
        /\ ~last_call.raised
        /\ app_notices.kind = "list"
        /\ (last_call.op = "prepend") =>
              app_notices.items = <<last_call.arg[1]>> \o s.items
        /\ (last_call.op = "post") =>
              app_notices.items = s.items \o <<last_call.arg[1]>>
        /\ (last_call.op = "extend") =>
              app_notices.items = s.items \o last_call.arg

\* extend has added two different notices, in their order, to a store that
\* already held one.
C10_Witness ==
    /\ last_call.op = "extend"
    /\ ~last_call.raised
    /\ Len(last_call.arg) = 2
    /\ last_call.arg[1] # last_call.arg[2]
    /\ last_call.before.kind = "list"
    /\ Len(last_call.before.items) = 1
    /\ Len(app_notices.items) = 3

\* ------------------------------------------------------------------------
\* Properties of the request envelope (checked under Spec)
\* ------------------------------------------------------------------------
\* The positions in the log of a request's START or completion lines.
LinesOf(r, line) ==
    {i \in 1..Len(log) : log[i].reqid = r /\ log[i].line = line}

FixedResponse == Pair(Text("server error"), 500)

\* C1 as stated: whenever the wrapped function raised, the request got the
\* fixed response, nothing propagated, and the completion line reports 500
\* with the outcome 'failure'.
C1_AsStated ==
    \A r \in Requests :
        (responses[r].exc # "") =>
            /\ responses[r].state = "returned"
            /\ responses[r].result = FixedResponse
            /\ \E i \in LinesOf(r, "DONE") :
                  log[i].status = 500 /\ log[i].result = "failure"

\* C1: when the wrapped function raises an exception deriving from
\* Exception, the request gets exactly the fixed response ('server error',
\* 500), nothing propagates, and the one completion line reports status 500
\* at level ERROR with the outcome 'server error' ('failure' is the outcome
\* of a returned status outside 200..299); an exception that does not derive
\* from Exception (SystemExit) propagates out of the wrapper, which writes no
\* completion line.
C1_ExceptionGivesFixedResponse ==
    /\ \A t \in Threads :
          (th[t].pc = "raised") =>
              th[t].exc \in ExceptionClasses /\ Outcome(t).result = FixedResponse
    /\ \A r \in Requests :
          /\ (responses[r].exc \in ExceptionClasses) =>
                /\ responses[r].state = "returned"
                /\ responses[r].result = FixedResponse
                /\ Cardinality(LinesOf(r, "DONE")) = 1
                /\ \A i \in LinesOf(r, "DONE") :
                      /\ log[i].status = 500
                      /\ log[i].level = "ERROR"
                      /\ log[i].result = "server error"
          /\ (responses[r].exc = "SystemExit") =>
                /\ responses[r].state = "propagated"
                /\ LinesOf(r, "DONE") = {}

\* One request failed inside the pipeline and got the fixed response, another
\* ended with SystemExit.
C1_Witness ==
    \E r, q \in Requests :
        /\ responses[r].exc = "Exception"
        /\ responses[r].state = "returned"
        /\ responses[r].stages # <<>>
        /\ responses[q].exc = "SystemExit"

\* C2 as stated: every request that went through standard_handler and is
\* over, whatever the function returned or raised, has exactly one START and
\* one completion line, in that order, the completion line carrying the
\* status of the response and 'success' exactly for 200..299.
C2_AsStated ==
    \A r \in Requests :
        (responses[r].via = "standard_handler") =>
            /\ Cardinality(LinesOf(r, "START")) = 1
            /\ Cardinality(LinesOf(r, "DONE")) = 1
            /\ \A i \in LinesOf(r, "START"), j \in LinesOf(r, "DONE") :
                  /\ i < j
                  /\ log[j].status = responses[r].result.status
                  /\ (log[j].result = "success") <=>
                        (200 <= log[j].status /\ log[j].status <= 299)

\* C2: under any interleaving, a request inside standard_handler has
\* exactly one START line and no completion line yet; a request the wrapper
\* returned from (the function returned any value, or raised an exception
\* deriving from Exception) has exactly one START and one completion line,
\* START first, the completion line carrying the status of the response
\* returned (200 for a non-tuple value) and 'success' exactly when that
\* status is in 200..299; a request ended by an exception that does not
\* derive from Exception has its START line and no completion line.
C2_OneStartOneCompletion ==
    /\ \A t \in Threads :
          (th[t].pc # "idle") =>
              /\ Cardinality(LinesOf(th[t].reqid, "START")) = 1
              /\ LinesOf(th[t].reqid, "DONE") = {}
    /\ \A r \in Requests :
          /\ (responses[r].via = "standard_handler") =>
                Cardinality(LinesOf(r, "START")) = 1
          /\ (responses[r].via = "standard_handler"
              /\ responses[r].state = "propagated") =>
                LinesOf(r, "DONE") = {}
          /\ (responses[r].via = "standard_handler"
              /\ responses[r].state = "returned") =>
                /\ Cardinality(LinesOf(r, "DONE")) = 1
                /\ responses[r].result.tuple
                /\ (responses[r].exc = "" /\ responses[r].value.tuple) =>
                      responses[r].result = responses[r].value
                /\ (responses[r].exc = "" /\ ~responses[r].value.tuple) =>
                      responses[r].result = Pair(responses[r].value.body, 200)
                /\ \A i \in LinesOf(r, "START"), j \in LinesOf(r, "DONE") :
                      /\ i < j
                      /\ log[j].status = responses[r].result.status
                      /\ (log[j].result = "success") <=>
                            (200 <= log[j].status /\ log[j].status <= 299)

\* Two requests ran interleaved (START 1, START 2, completion 2, completion
\* 1): one returned a tuple with status 299, the other a non-tuple page.
C2_Witness ==
    /\ Len(log) = 4
    /\ log[1].reqid = 1 /\ log[2].reqid = 2
    /\ log[3].reqid = 2 /\ log[4].reqid = 1
    /\ responses[1].state = "returned"
    /\ responses[1].value = Pair(Text("page"), 299)
    /\ log[4].result = "success"
    /\ responses[2].state = "returned"
    /\ responses[2].exc = ""
    /\ ~responses[2].value.tuple
    /\ log[3].status = 200

\* ------------------------------------------------------------------------
\* Properties of the probes and of readiness (checked under Spec)
\* ------------------------------------------------------------------------
\* The positions a thread is in while its request is inside the pipeline.
PipelinePositions == {"get_aconf", "ir", "scout", "econf", "diag", "collect", "merge"}

\* C3: every step that answers a probe, whatever the other threads and the
\* updater are doing, answers with 200 or 503: check_alive with 200 exactly
\* when the alive boolean of the health state is true, check_ready with 200
\* exactly when its ready boolean is true; the step leaves the configuration
\* root, the SplitConfigChecker, the notices store, the threads, the log and
\* the health state as they were.
C3_ProbesAnswerFromHealthState ==
    [][\A r \in Requests :
          (responses[r].state = "none" /\ responses'[r].via \in ProbeKinds) =>
              /\ responses'[r].state = "returned"
              /\ responses'[r].exc = ""
              /\ responses'[r].result.tuple
              /\ responses'[r].result.status \in {200, 503}
              /\ (responses'[r].via = "check_alive") =>
                    ((responses'[r].result.status = 200) <=> EnvoyStatus.alive)
              /\ (responses'[r].via = "check_ready") =>
                    ((responses'[r].result.status = 200) <=> EnvoyStatus.ready)
              /\ UNCHANGED <<entries, app_scc, app_notices, th, log,
                             last_update, scan, last_call>>]_vars

\* check_ready was answered 503 before any update while another thread was
\* inside the pipeline with the notices store already reset.
C3_Witness ==
    \E r \in Requests, t \in Threads :
        /\ responses[r].via = "check_ready"
        /\ responses[r].result.status = 503
        /\ UpdaterStarted
        /\ th[t].pc \in PipelinePositions \ {"get_aconf"}

\* C4: readiness is READY exactly when last_update is present: NOT_READY at
\* process start, READY from the first successful update on and never
\* NOT_READY again; liveness is ALIVE in every state.
C4_ReadyIffUpdated ==
    /\ ~EnvoyStatus.ready
    /\ [](EnvoyStatus.ready <=> (last_update # 0))
    /\ []EnvoyStatus.alive
    /\ [][EnvoyStatus.ready => EnvoyStatus.ready']_vars
    /\ [][(~EnvoyStatus.ready /\ EnvoyStatus.ready') =>
             (UpdaterStarted /\ last_update = 0 /\ last_update' = 1)]_vars

\* Ready after a second successful update, with both requests answered.
C4_Witness ==
    /\ EnvoyStatus.ready
    /\ last_update = 2
    /\ \E r \in Requests :
          responses[r].via = "check_ready" /\ responses[r].result.status = 200

\* ------------------------------------------------------------------------
\* Properties of a request that finds no generation (checked under Spec)
\* ------------------------------------------------------------------------
\* get_aconf finds no generation number among the entries.
NoGeneration == SyncDirs(ListDir(entries)) = <<>>

RECURSIVE EntriesBefore(_, _)
EntriesBefore(d, k) ==
    IF k = 0 THEN 0 ELSE EntriesBefore(d, k - 1) + Len(d[k][2])

ShownKey(key) == IF key = "-global-" THEN "" ELSE key

\* C11: the errors returned are a flat sequence of (key, message) pairs: as
\* many as there are error entries, the j-th entry of the k-th key standing
\* after all entries of earlier keys and the first j-1 of its own, under its
\* key, "-global-" shown as the empty string; no 'errors' gives none.
C11_ErrorsFlattened ==
    (view.op = "collect_errors_and_notices") =>
        LET d == view.ddict.errors IN
        /\ ~view.raised
        /\ Len(view.errors) = EntriesBefore(d, Len(d))
        /\ \A k \in 1..Len(d) : \A j \in 1..Len(d[k][2]) :
              view.errors[EntriesBefore(d, k - 1) + j] =
                  <<ShownKey(d[k][1]), d[k][2][j].error>>
        /\ ~view.ddict.has_errors => view.errors = <<>>

\* The example of the description: {"-global-": [X], "svcA": [Y]} flattened
\* to [("", X), ("svcA", Y)].
C11_Witness ==
    /\ view.op = "collect_errors_and_notices"
    /\ view.ddict.errors = << <<"-global-", <<[error |-> "X"]>> >>,
                              <<"svcA", <<[error |-> "Y"]>> >> >>
    /\ view.errors = << <<"", "X">>, <<"svcA", "Y">> >>

\* ------------------------------------------------------------------------
\* Properties of the view model (checked under TvarsSpec)
\* ------------------------------------------------------------------------
\* The keys of a sequence of items.
KeysOf(items) == {items[i][1] : i \in 1..Len(items)}

\* The keys the page itself writes out for the view's kind.
WrittenKeys(kind) ==
    KeysOf(Keywords(GenericKeys, "generic"))
    \cup (IF kind = "show_intermediate" THEN KeysOf(Keywords(LocalKeys, "request"))
          ELSE {})

\* A key of the diagnostics result is also written out by the page, or is in
\* both the overview / lookup output and the diagnostics dict.
KeysCollide ==
    \/ (KeysOf(view.result) \cup KeysOf(view.ddict)) \cap WrittenKeys(view.kind) # {}
    \/ KeysOf(view.result) \cap KeysOf(view.ddict) # {}

\* C12: when keys collide, building the view model does not fail, every key
\* is there once, and a key of the diagnostics result holds the value the
\* diagnostics result gave it.
C12_DiagnosticsKeysWin ==
    (view.op = "tvars" /\ KeysCollide) =>
        /\ ~view.raised
        /\ DistinctKeys(view.tvars)
        /\ \A i \in 1..Len(view.tvars) :
              (view.tvars[i][1] \in KeysOf(view.result) \cup KeysOf(view.ddict)) =>
                  view.tvars[i][2] \in {"result", "ddict"}

\* show_overview built its view model from an overview output that has the
\* key 'notices', and the dict(...) call raised.
C12_Witness ==
    /\ view.op = "tvars"
    /\ view.kind = "show_overview"
    /\ KeysOf(view.result) = {"notices"}
    /\ KeysOf(view.ddict) = {"errors"}
    /\ view.raised

\* ------------------------------------------------------------------------
\* Properties of the notices of a page (checked under Spec)
\* ------------------------------------------------------------------------
\* The notices the local file holds: those of its array, none without a file.
FileNotices ==
    IF \E ns \in NoticeArrays : FileHoldsArray(ns)
    THEN NoticesOf(CHOOSE ns \in NoticeArrays : FileHoldsArray(ns)).items
    ELSE <<>>

\* The notices the telemetry report of a request carries.
TelemetryNotices == CHOOSE ns \in ScoutNotices : TRUE

\* The notices of a request's diagnostics, as they are posted.
DiagnosticsNotices ==
    LET dn == CHOOSE d \in DiagNotices : TRUE
    IN [i \in 1..Len(dn) |-> Notice("NOTICE", <<dn[i][1], ": ", dn[i][2]>>)]

Holds(ns, n) == \E i \in 1..Len(ns) : ns[i] = n

HoldsAll(ns, ms) == \A j \in 1..Len(ms) : Holds(ns, ms[j])

\* A request that went through the pipeline and got its page.
PageReturned(r) ==
    /\ responses[r].state = "returned"
    /\ responses[r].exc = ""
    /\ responses[r].stages # <<>>

PageNotices(r) == responses[r].value.body.notices.items

\* C13: the notices of every page returned hold every notice of the
\* request's own diagnostics, the notices of the local file and the telemetry
\* notices the request gathered, whatever other requests ran meanwhile.
C13_PageHoldsOwnNotices ==
    \A r \in Requests :
        PageReturned(r) =>
            /\ HoldsAll(PageNotices(r), DiagnosticsNotices)
            /\ HoldsAll(PageNotices(r), TelemetryNotices)
            /\ HoldsAll(PageNotices(r), FileNotices)

\* Two pages were returned and the first holds no notice of its diagnostics.
C13_Witness ==
    /\ PageReturned(1)
    /\ PageReturned(2)
    /\ ~HoldsAll(PageNotices(1), DiagnosticsNotices)

\* Thread t is about to return from a request that ran with no other request
\* in between: nothing was logged since its START line and the other threads
\* are idle.
RanAlone(t) ==
    /\ log[Len(log)].reqid = th[t].reqid
    /\ \A u \in Threads \ {t} : th[u].pc = "idle"

\* C14: a page request that ran without interleaving and whose handler
\* returned answers 200 with the notices, in this order: the WARNING 'Could
\* not update log level!' when a log level change was asked for and failed,
\* the notices of the local file, the telemetry notices, the notices of the
\* diagnostics; a failed log level change does not make collecting fail.
C14_NoticesInOrder ==
    [][\A t \in Threads :
          /\ (th[t].pc = "collect" /\ th'[t].warned) => th'[t].pc = "merge"
          /\ (/\ th[t].pc = "returned"
              /\ th[t].kind \in DiagKinds
              /\ th'[t].pc = "idle"
              /\ RanAlone(t)) =>
                /\ responses'[th[t].reqid].result.status = 200
                /\ responses'[th[t].reqid].result.body.notices.items =
                      (IF th[t].warned THEN <<LogLevelNotice>> ELSE <<>>)
                         \o FileNotices \o TelemetryNotices
                         \o DiagnosticsNotices]_vars

\* Started without a notices path, the only request asked for a log level
\* change that failed; its page shows an ERROR notice after the WARNING.
C14_Witness ==
    /\ notice_path = NoPath
    /\ Len(log) = 2
    /\ PageReturned(1)
    /\ PageNotices(1) =
          <<LogLevelNotice, BadLocalNotices(<<>>)>> \o TelemetryNotices
             \o DiagnosticsNotices

\* ------------------------------------------------------------------------
\* Properties of the pipeline of a page (checked under Spec)
\* ------------------------------------------------------------------------
\* The stages of a page in the order the handlers call them: generation
\* selection, configuration load, IR build, telemetry report, proxy-config
\* generation, diagnostics, collecting errors and notices, merge and render.
FullPipeline ==
    <<"select", "load", "ir", "scout", "econf", "diag", "collect", "merge">>

IsPrefix(s, f) == Len(s) <= Len(f) /\ \A i \in 1..Len(s) : s[i] = f[i]

\* C15: every page request starts the pipeline afresh and runs its stages
\* in the one order, each at most once; a page is returned only after all of
\* them ran for that request; once a stage has failed no further stage runs
\* and the answer is the fixed 500 response, with nothing of the page in it.
C15_PipelineInOrder ==
    /\ [](\A t \in Threads :
            /\ IsPrefix(th[t].stages, FullPipeline)
            /\ (th[t].pc = "returned" /\ th[t].kind \in DiagKinds) =>
                  th[t].stages = FullPipeline)
    /\ [](\A r \in Requests :
            /\ IsPrefix(responses[r].stages, FullPipeline)
            /\ PageReturned(r) => responses[r].stages = FullPipeline
            /\ (responses[r].stages # <<>> /\ responses[r].exc # "") =>
                  responses[r].result = FixedResponse)
    /\ [][\A t \in Threads :
            /\ (th[t].pc = "idle" /\ th'[t].pc # "idle") =>
                  /\ th'[t].stages = <<>>
                  /\ th'[t].aconf = <<>>
                  /\ th'[t].reader = <<>>
                  /\ th'[t].dnotices = <<>>
            /\ (th[t].pc = "raised" /\ th'[t] # th[t]) => th'[t] = IdleThread
            /\ (th'[t].stages # th[t].stages /\ th'[t].stages # <<>>) =>
                  /\ th[t].pc \in PipelinePositions
                  /\ Len(th'[t].stages) > Len(th[t].stages)]_vars

\* One request got its page after the whole pipeline, the other failed in the
\* proxy-config generation and got the fixed response.
C15_Witness ==
    \E r, q \in Requests :
        /\ PageReturned(r)
        /\ responses[r].stages = FullPipeline
        /\ responses[q].exc = "Exception"
        /\ responses[q].stages = <<"select", "load", "ir", "scout", "econf">>
        /\ responses[q].result = FixedResponse

\* ------------------------------------------------------------------------
\* Properties of the health state (checked under Spec)
\* ------------------------------------------------------------------------
\* C16: no step changes boot_time; a step that changes last_update is a step
\* of the started updater and of no request (threads, responses, log, notices
\* and SplitConfigChecker stay as they are); over any step that is no such
\* update the readiness a probe would report stays the same.
C16_OnlyUpdaterWritesHealth ==
    [][/\ boot_time' = boot_time
       /\ (last_update' # last_update) =>
             /\ UpdaterStarted
             /\ UNCHANGED <<th, responses, log, next_req, app_notices,
                            app_scc, entries>>
       /\ (last_update' = last_update) =>
             /\ EnvoyStatus' = EnvoyStatus
             /\ CheckReady' = CheckReady]_vars

\* With the updater started and no update yet, a page whose log level change
\* failed was returned and the check_ready after it answered 503.
C16_Witness ==
    /\ UpdaterStarted
    /\ last_update = 0
    /\ PageReturned(1)
    /\ Holds(PageNotices(1), LogLevelNotice)
    /\ responses[2].via = "check_ready"
    /\ responses[2].result.status = 503

\* ------------------------------------------------------------------------
\* Properties of readiness over time (checked under LiveSpec)
\* ------------------------------------------------------------------------
\* C17 as stated: with health checks enabled, readiness eventually becomes
\* READY and check_ready eventually answers 200, whatever the worker threads
\* do.
C17_AsStated ==
    health_checks => (<>EnvoyStatus.ready /\ <>(probed = 200))

\* C17: with health checks enabled, readiness eventually becomes READY
\* whatever the worker threads do, and stays; check_ready answers 200 only
\* when READY, and eventually does answer 200 provided that from some time on
\* a worker thread is free to take the probe.
C17_ReadyEventually ==
    /\ health_checks => <>[]EnvoyStatus.ready
    /\ [](probed = 200 => EnvoyStatus.ready)
    /\ (health_checks /\ <>[](\E t \in Threads : th[t].pc = "idle")) =>
          <>(probed = 200)

\* READY was reached with both threads inside the pipeline and no probe
\* answered 200 so far.
C17_Witness ==
    /\ health_checks
    /\ EnvoyStatus.ready
    /\ probed # 200
    /\ \A t \in Threads : th[t].pc \in PipelinePositions

\* ------------------------------------------------------------------------
\* Properties of a process started without health checks (checked under Spec)
\* ------------------------------------------------------------------------
\* C18: without health checks the updater is not started, last_update stays
\* absent, every check_ready answered is a 503 and every check_alive a 200,
\* whatever pages are served.
C18_NoChecksNeverReady ==
    (~health_checks) =>
        /\ ~UpdaterStarted
        /\ last_update = 0
        /\ ~EnvoyStatus.ready
        /\ CheckReady.status = 503
        /\ \A r \in Requests :
              /\ (responses[r].via = "check_ready") =>
                    responses[r].result.status = 503
              /\ (responses[r].via = "check_alive") =>
                    responses[r].result.status = 200

\* Without health checks a page was returned and the check_ready after it
\* answered 503.
C18_Witness ==
    /\ ~health_checks
    /\ PageReturned(1)
    /\ responses[2].via = "check_ready"
    /\ responses[2].result.status = 503

\* ------------------------------------------------------------------------
\* Properties of the secret reader (checked under Spec)
\* ------------------------------------------------------------------------
\* C19: the secret reader a request builds its IR with belongs to the
\* SplitConfigChecker made for the directory the request loaded its
\* configuration from.
C19_ReaderOfOwnGeneration ==
    /\ \A t \in Threads :
          (th[t].reader # <<>>) => th[t].reader = th[t].aconf

\* A thread built its IR from the configuration of sync-1 with the secret
\* reader of the checker made for sync-10.
C19_Witness ==
    \E t \in Threads :
        /\ th[t].aconf = <<SyncPrefix, "1">>
        /\ th[t].reader = <<SyncPrefix, "1", "0">>

====
